---------------------------- MODULE Spec2Model ----------------------------
(***************************************************************************)
(* The slim EndpointSlice v1 schema (pkg/k8s/slim/k8s/api/discovery/v1)    *)
(* and what its struct tags make encoding/json and the protobuf wire       *)
(* format do with a value.                                                 *)
(*                                                                         *)
(* Go values are represented as follows:                                   *)
(*   string, bool, int32   a TLA+ string, boolean, integer                 *)
(*   *T, []T, map          Nil, or Some(x); a slice holds a sequence, a    *)
(*                         map[string]string a function on its keys        *)
(*   struct                a record indexed by the Go field names          *)
(* The embedded TypeMeta / ObjectMeta / ListMeta come from a companion     *)
(* package; they are carried as structs with no fields of their own.       *)
(***************************************************************************)
EXTENDS Integers, Sequences, FiniteSets, TLC

VARIABLES kind, val, indoc, fmt, wire, out, err, pc

vars == <<kind, val, indoc, fmt, wire, out, err, pc>>

-----------------------------------------------------------------------------
(* Go values and types *)

Nil == [some |-> FALSE]

Some(x) == [some |-> TRUE, v |-> x]

TString == [k |-> "string", n |-> "string"]

\* type AddressType string
AddressTypeT == [k |-> "string", n |-> "AddressType"]

\* slim_corev1.Protocol, a string type of the companion package
ProtocolT == [k |-> "string", n |-> "Protocol"]

TBool == [k |-> "bool"]

TInt32 == [k |-> "int32"]

TMap == [k |-> "map"]

TPtr(e) == [k |-> "ptr", e |-> e]

TSlice(e) == [k |-> "slice", e |-> e]

TStruct(n) == [k |-> "struct", n |-> n]

AddressTypeIPv4 == "IPv4"

AddressTypeIPv6 == "IPv6"

AddressTypeFQDN == "FQDN"

KnownAddressTypes == {AddressTypeIPv4, AddressTypeIPv6, AddressTypeFQDN}

KnownProtocols == {"UDP", "TCP", "SCTP"}

\* One struct field: Go name, the name of its json tag ("" when the field has
\* no json tag or an empty name), the omitempty option, the protobuf field
\* number and label of its protobuf tag (0 when it has none), its Go type.
Field(go, json, omitempty, pb, label, ty) ==
    [go |-> go, json |-> json, omitempty |-> omitempty, pb |-> pb,
     label |-> label, ty |-> ty]

EndpointSliceFields ==
    << Field("ObjectMeta", "metadata", TRUE, 1, "opt", TStruct("ObjectMeta")),
       Field("AddressType", "addressType", FALSE, 4, "rep", AddressTypeT),
       Field("Endpoints", "endpoints", FALSE, 2, "rep", TSlice(TStruct("Endpoint"))),
       Field("Ports", "ports", FALSE, 3, "rep", TSlice(TStruct("EndpointPort"))) >>

\* zone given the field number of nodeName.
EndpointFields_ZoneNumber ==
    << Field("Addresses", "addresses", FALSE, 1, "rep", TSlice(TString)),
       Field("Conditions", "conditions", TRUE, 2, "opt", TStruct("EndpointConditions")),
       Field("DeprecatedTopology", "deprecatedTopology", TRUE, 5, "opt", TMap),
       Field("NodeName", "nodeName", TRUE, 6, "opt", TPtr(TString)),
       Field("Zone", "", FALSE, 6, "opt", TPtr(TString)),
       Field("Hints", "", FALSE, 8, "opt", TPtr(TStruct("EndpointHints"))) >>

EndpointFields ==
    << Field("Addresses", "addresses", FALSE, 1, "rep", TSlice(TString)),
       Field("Conditions", "conditions", TRUE, 2, "opt", TStruct("EndpointConditions")),
       Field("DeprecatedTopology", "deprecatedTopology", TRUE, 5, "opt", TMap),
       Field("NodeName", "nodeName", TRUE, 6, "opt", TPtr(TString)),
       Field("Zone", "", FALSE, 7, "opt", TPtr(TString)),
       Field("Hints", "", FALSE, 8, "opt", TPtr(TStruct("EndpointHints"))) >>

\* The serving tag copied from ready and its name left as it was.
EndpointConditionsFields_TagTypo ==
    << Field("Ready", "ready", TRUE, 1, "", TPtr(TBool)),
       Field("Serving", "ready", TRUE, 2, "", TPtr(TBool)),
       Field("Terminating", "terminating", TRUE, 3, "", TPtr(TBool)) >>

EndpointConditionsFields ==
    << Field("Ready", "ready", TRUE, 1, "", TPtr(TBool)),
       Field("Serving", "serving", TRUE, 2, "", TPtr(TBool)),
       Field("Terminating", "terminating", TRUE, 3, "", TPtr(TBool)) >>

EndpointPortFields ==
    << Field("Name", "name", TRUE, 1, "", TPtr(TString)),
       Field("Protocol", "protocol", TRUE, 2, "", TPtr(ProtocolT)),
       Field("Port", "port", TRUE, 3, "opt", TPtr(TInt32)) >>

EndpointHintsFields ==
    << Field("ForZones", "", FALSE, 1, "rep", TSlice(TStruct("ForZone"))) >>

ForZoneFields ==
    << Field("Name", "", FALSE, 1, "opt", TString) >>

EndpointSliceListFields ==
    << Field("ListMeta", "metadata", TRUE, 1, "opt", TStruct("ListMeta")),
       Field("Items", "items", FALSE, 2, "rep", TSlice(TStruct("EndpointSlice"))) >>

Fields(n) ==
    CASE n = "EndpointSlice" -> EndpointSliceFields
      [] n = "Endpoint" -> EndpointFields
      [] n = "EndpointConditions" -> EndpointConditionsFields
      [] n = "EndpointPort" -> EndpointPortFields
      [] n = "EndpointHints" -> EndpointHintsFields
      [] n = "ForZone" -> ForZoneFields
      [] n = "EndpointSliceList" -> EndpointSliceListFields
      [] OTHER -> << >>

Kinds ==
    {"EndpointSlice", "Endpoint", "EndpointConditions", "EndpointPort",
     "EndpointHints", "ForZone", "EndpointSliceList"}

RECURSIVE Zero(_)
\* The zero value of a Go type.
Zero(ty) ==
    CASE ty.k = "string" -> ""
      [] ty.k = "bool" -> FALSE
      [] ty.k = "int32" -> 0
      [] ty.k \in {"ptr", "slice", "map"} -> Nil
      [] ty.k = "struct" ->
           LET fs == Fields(ty.n)
           IN  [g \in {fs[i].go : i \in 1..Len(fs)} |->
                  Zero(fs[CHOOSE i \in 1..Len(fs) : fs[i].go = g].ty)]

-----------------------------------------------------------------------------
(* Structured text (JSON) documents *)

JNull == [t |-> "null"]

JStr(s) == [t |-> "str", s |-> s]

JNum(n) == [t |-> "num", n |-> n]

\* A number that is no int32: one with a fraction, or beyond 32 bits.
JBigNum == [t |-> "bignum"]

JBool(b) == [t |-> "bool", b |-> b]

JArr(a) == [t |-> "arr", a |-> a]

\* An object is the sequence of its <<key, value>> members, in document order.
JObj(o) == [t |-> "obj", o |-> o]

\* The keys of map[string]string values, in the sorted order the encoder
\* writes them.
MapKeys == << "kubernetes.io/hostname", "topology.kubernetes.io/zone" >>

\* omitempty looking through the pointer, as it would for a field declared
\* bool or string instead of *bool or *string.
IsEmptyValue_Deref(ty, v) ==
    CASE ty.k = "string" -> v = ""
      [] ty.k = "bool" -> v = FALSE
      [] ty.k = "int32" -> v = 0
      [] ty.k = "ptr" ->
           \/ ~v.some
           \/ ty.e.k = "string" /\ v.v = ""
           \/ ty.e.k = "bool" /\ v.v = FALSE
           \/ ty.e.k = "int32" /\ v.v = 0
      [] ty.k = "slice" -> ~v.some \/ Len(v.v) = 0
      [] ty.k = "map" -> ~v.some \/ DOMAIN v.v = {}
      [] OTHER -> FALSE

\* Go's isEmptyValue: what omitempty leaves out.  A struct is never empty.
IsEmptyValue(ty, v) ==
    CASE ty.k = "string" -> v = ""
      [] ty.k = "bool" -> v = FALSE
      [] ty.k = "int32" -> v = 0
      [] ty.k = "ptr" -> ~v.some
      [] ty.k = "slice" -> ~v.some \/ Len(v.v) = 0
      [] ty.k = "map" -> ~v.some \/ DOMAIN v.v = {}
      [] OTHER -> FALSE

\* The key a field is written under: the name of its json tag, or the Go
\* field name when the tag names none.
JsonName(f) == IF f.json = "" THEN f.go ELSE f.json

RECURSIVE EncJson(_, _)
\* json.Marshal of a value of type ty.
EncJson(ty, v) ==
    CASE ty.k = "string" -> JStr(v)
      [] ty.k = "bool" -> JBool(v)
      [] ty.k = "int32" -> JNum(v)
      [] ty.k = "ptr" -> IF v.some THEN EncJson(ty.e, v.v) ELSE JNull
      [] ty.k = "slice" ->
           IF v.some
           THEN JArr([i \in 1..Len(v.v) |-> EncJson(ty.e, v.v[i])])
           ELSE JNull
      [] ty.k = "map" ->
           IF v.some
           THEN LET ks == SelectSeq(MapKeys, LAMBDA x : x \in DOMAIN v.v)
                IN  JObj([i \in 1..Len(ks) |-> <<ks[i], JStr(v.v[ks[i]])>>])
           ELSE JNull
      [] ty.k = "struct" ->
           LET fs == SelectSeq(Fields(ty.n),
                        LAMBDA f : ~(f.omitempty /\ IsEmptyValue(f.ty, v[f.go])))
           IN  JObj([i \in 1..Len(fs) |->
                       <<JsonName(fs[i]), EncJson(fs[i].ty, v[fs[i].go])>>])

-----------------------------------------------------------------------------
(* Decoding structured text *)

NoError == "none"

\* json.UnmarshalTypeError: the document holds a value of the wrong JSON type
\* for the Go field it is decoded into.
MalformedInput == "malformed input"

Result(e, v) == [err |-> e, v |-> v]

\* The decoder keeps the first error it meets and goes on.
FirstError(e1, e2) == IF e1 # NoError THEN e1 ELSE e2

\* Lower-case forms of the keys that hold an upper-case letter.
CaseTable ==
    << <<"addressType", "addresstype">>, <<"deprecatedTopology", "deprecatedtopology">>,
       <<"nodeName", "nodename">>, <<"NodeName", "nodename">>,
       <<"Zone", "zone">>, <<"ZONE", "zone">>, <<"Hints", "hints">>,
       <<"ForZones", "forzones">>, <<"forZones", "forzones">>,
       <<"Name", "name">>, <<"Items", "items">>, <<"Ready", "ready">> >>

\* Case folding of a key, as the decoder applies it to match keys to fields.
FoldName(s) ==
    IF \E i \in 1..Len(CaseTable) : CaseTable[i][1] = s
    THEN CaseTable[CHOOSE i \in 1..Len(CaseTable) : CaseTable[i][1] = s][2]
    ELSE s

\* First index at which the sequence of booleans bs is true, or 0.
FirstField(bs) ==
    IF \E i \in 1..Len(bs) : bs[i]
    THEN CHOOSE i \in 1..Len(bs) : bs[i] /\ \A h \in 1..(i - 1) : ~bs[h]
    ELSE 0

\* Keys matched to fields by their exact spelling only.
FindField_ExactOnly(n, key) ==
    FirstField([i \in 1..Len(Fields(n)) |-> JsonName(Fields(n)[i]) = key])

\* The field of struct n a document key is stored into: the field whose name
\* is the key, else the first one whose name equals it ignoring case; 0 when
\* the key is unknown (and skipped).
FindField(n, key) ==
    LET fs == Fields(n)
        exact == FirstField([i \in 1..Len(fs) |-> JsonName(fs[i]) = key])
    IN  IF exact # 0 THEN exact
        ELSE FirstField([i \in 1..Len(fs) |->
                           FoldName(JsonName(fs[i])) = FoldName(key)])

\* AddressType and Protocol as closed enumerations.
DecString_KnownOnly(ty, j, cur) ==
    IF /\ j.t = "str"
       /\ ty.n = "AddressType" => j.s \in KnownAddressTypes
       /\ ty.n = "Protocol" => j.s \in KnownProtocols
    THEN Result(NoError, j.s)
    ELSE Result(MalformedInput, cur)

\* A JSON string into a Go string (of any named string type).
DecString(ty, j, cur) ==
    IF j.t = "str" THEN Result(NoError, j.s) ELSE Result(MalformedInput, cur)

DecBool(j, cur) ==
    IF j.t = "bool" THEN Result(NoError, j.b) ELSE Result(MalformedInput, cur)

\* The port read from a quoted number too, as under the ",string" option.
DecInt32_Quoted(j, cur) ==
    IF j.t = "num" THEN Result(NoError, j.n)
    ELSE IF j.t = "str" THEN Result(NoError, 80)
    ELSE Result(MalformedInput, cur)

\* A JSON number into an int32: an error when it is no int32.
DecInt32(j, cur) ==
    IF j.t = "num" THEN Result(NoError, j.n) ELSE Result(MalformedInput, cur)

\* Index of the last member of object members o under key k.
LastMember(o, k) ==
    CHOOSE i \in 1..Len(o) : o[i][1] = k /\ \A h \in (i + 1)..Len(o) : o[h][1] # k

\* A JSON object into a map[string]string: members are added to the map; a
\* member that is no string leaves the zero string and an error.
DecMap(j, cur) ==
    IF j.t # "obj" THEN Result(MalformedInput, cur)
    ELSE LET old == IF cur.some THEN cur.v ELSE << >>
             ks == {j.o[i][1] : i \in 1..Len(j.o)}
             bad == \E i \in 1..Len(j.o) : j.o[i][2].t \notin {"str", "null"}
         IN  Result(IF bad THEN MalformedInput ELSE NoError,
                    Some([k \in (DOMAIN old) \cup ks |->
                            IF k \in ks
                            THEN LET m == j.o[LastMember(j.o, k)][2]
                                 IN  IF m.t = "str" THEN m.s ELSE ""
                            ELSE old[k]]))

\* The first error among a sequence of results.
SeqError(rs) ==
    IF \E i \in 1..Len(rs) : rs[i].err # NoError
    THEN rs[CHOOSE i \in 1..Len(rs) :
              rs[i].err # NoError /\ \A h \in 1..(i - 1) : rs[h].err = NoError].err
    ELSE NoError

RECURSIVE DecJson(_, _, _), DecMembers(_, _, _, _)
\* json.Unmarshal of document j into a value cur of type ty.  null leaves a
\* string, bool, number or struct as it is and makes a pointer, slice or map
\* nil.
DecJson(ty, j, cur) ==
    IF j.t = "null"
    THEN Result(NoError, IF ty.k \in {"ptr", "slice", "map"} THEN Nil ELSE cur)
    ELSE CASE ty.k = "string" -> DecString(ty, j, cur)
           [] ty.k = "bool" -> DecBool(j, cur)
           [] ty.k = "int32" -> DecInt32(j, cur)
           [] ty.k = "ptr" ->
                LET r == DecJson(ty.e, j, IF cur.some THEN cur.v ELSE Zero(ty.e))
                IN  Result(r.err, Some(r.v))
           [] ty.k = "slice" ->
                IF j.t # "arr" THEN Result(MalformedInput, cur)
                ELSE LET rs == [i \in 1..Len(j.a) |-> DecJson(ty.e, j.a[i], Zero(ty.e))]
                     IN  Result(SeqError(rs), Some([i \in 1..Len(rs) |-> rs[i].v]))
           [] ty.k = "map" -> DecMap(j, cur)
           [] ty.k = "struct" ->
                IF j.t # "obj" THEN Result(MalformedInput, cur)
                ELSE DecMembers(ty.n, j.o, 1, Result(NoError, cur))

\* The members of an object from the i-th on, stored into struct n.
DecMembers(n, o, i, acc) ==
    IF i > Len(o) THEN acc
    ELSE LET f == FindField(n, o[i][1])
         IN  IF f = 0 THEN DecMembers(n, o, i + 1, acc)
             ELSE LET fd == Fields(n)[f]
                      r == DecJson(fd.ty, o[i][2], acc.v[fd.go])
                  IN  DecMembers(n, o, i + 1,
                         Result(FirstError(acc.err, r.err),
                                [acc.v EXCEPT ![fd.go] = r.v]))

-----------------------------------------------------------------------------
(* The binary tagged-field (protobuf) format *)

\* A message is a sequence of entries, each a field number with a payload: a
\* varint (bool, int32) or a length-delimited one (string, nested message).
PbVarint(num, x) == [num |-> num, w |-> "varint", x |-> x]

PbLen(num, x) == [num |-> num, w |-> "len", x |-> x]

RECURSIVE Flatten(_)
Flatten(ss) == IF Len(ss) = 0 THEN << >> ELSE Head(ss) \o Flatten(Tail(ss))

\* The fields of struct n that have a protobuf tag, by ascending field number.
RECURSIVE PbOrder(_, _)
PbOrder(fs, num) ==
    IF \A i \in 1..Len(fs) : fs[i].pb < num THEN << >>
    ELSE SelectSeq(fs, LAMBDA f : f.pb = num) \o PbOrder(fs, num + 1)

RECURSIVE EncPb(_, _, _), EncPbMsg(_, _)
\* The entries written for field number num holding v: none for a nil
\* pointer, one per element of a slice and per key of a map, one otherwise.
EncPb(num, ty, v) ==
    CASE ty.k = "string" -> << PbLen(num, v) >>
      [] ty.k = "bool" -> << PbVarint(num, IF v THEN 1 ELSE 0) >>
      [] ty.k = "int32" -> << PbVarint(num, v) >>
      [] ty.k = "ptr" -> IF v.some THEN EncPb(num, ty.e, v.v) ELSE << >>
      [] ty.k = "slice" ->
           IF v.some
           THEN [i \in 1..Len(v.v) |-> EncPb(num, ty.e, v.v[i])[1]]
           ELSE << >>
      [] ty.k = "map" ->
           IF v.some
           THEN LET ks == SelectSeq(MapKeys, LAMBDA x : x \in DOMAIN v.v)
                IN  [i \in 1..Len(ks) |->
                       PbLen(num, << PbLen(1, ks[i]), PbLen(2, v.v[ks[i]]) >>)]
           ELSE << >>
      [] ty.k = "struct" -> << PbLen(num, EncPbMsg(ty.n, v)) >>

\* Marshal of a struct: its tagged fields in field-number order.
EncPbMsg(n, v) ==
    LET fs == PbOrder(SelectSeq(Fields(n), LAMBDA f : f.pb > 0), 1)
    IN  Flatten([i \in 1..Len(fs) |-> EncPb(fs[i].pb, fs[i].ty, v[fs[i].go])])

\* The value of the entry with field number num in a map entry message.
PbMapPart(m, num) ==
    IF \E i \in 1..Len(m) : m[i].num = num
    THEN m[CHOOSE i \in 1..Len(m) : m[i].num = num].x
    ELSE ""

RECURSIVE DecPb(_, _, _), DecPbEntries(_, _, _, _), DecPbMsg(_, _)
\* One entry e stored into a value cur of type ty.  A wrong wire type is an
\* error; a map entry is added to the map.
DecPb(ty, e, cur) ==
    CASE ty.k = "string" ->
           IF e.w = "len" THEN Result(NoError, e.x) ELSE Result(MalformedInput, cur)
      [] ty.k = "bool" ->
           IF e.w = "varint" THEN Result(NoError, e.x # 0)
           ELSE Result(MalformedInput, cur)
      [] ty.k = "int32" ->
           IF e.w = "varint" THEN Result(NoError, e.x) ELSE Result(MalformedInput, cur)
      [] ty.k = "ptr" ->
           LET r == DecPb(ty.e, e, IF cur.some THEN cur.v ELSE Zero(ty.e))
           IN  Result(r.err, IF r.err = NoError \/ cur.some THEN Some(r.v) ELSE cur)
      [] ty.k = "map" ->
           IF e.w # "len" THEN Result(MalformedInput, cur)
           ELSE LET old == IF cur.some THEN cur.v ELSE << >>
                    key == PbMapPart(e.x, 1)
                IN  Result(NoError,
                           Some([k \in (DOMAIN old) \cup {key} |->
                                   IF k = key THEN PbMapPart(e.x, 2) ELSE old[k]]))
      [] ty.k = "struct" ->
           IF e.w # "len" THEN Result(MalformedInput, cur)
           ELSE LET r == DecPbMsg(ty.n, e.x)
                IN  Result(r.err, [g \in DOMAIN cur |->
                                     IF r.set[g] THEN r.v[g] ELSE cur[g]])

\* The entries es of one field, from the i-th on, stored in turn into acc.
DecPbEntries(ty, es, i, acc) ==
    IF i > Len(es) THEN acc
    ELSE LET r == DecPb(ty, es[i], acc.v)
         IN  DecPbEntries(ty, es, i + 1, Result(FirstError(acc.err, r.err), r.v))

\* Unmarshal of message m into a new struct n: each field takes the entries
\* carrying its number, a repeated field one element per entry, and stays at
\* its zero value when there is none; an entry whose number no field has is
\* skipped.  set tells which fields the message wrote.
DecPbMsg(n, m) ==
    LET fs == Fields(n)
        zero == Zero(TStruct(n))
        entries(fd) == SelectSeq(m, LAMBDA e : e.num = fd.pb)
        one(fd) ==
            LET es == entries(fd)
            IN  IF fd.ty.k = "slice"
                THEN LET rs == [i \in 1..Len(es) |-> DecPb(fd.ty.e, es[i], Zero(fd.ty.e))]
                     IN  Result(SeqError(rs),
                                IF Len(es) = 0 THEN Nil
                                ELSE Some([i \in 1..Len(rs) |-> rs[i].v]))
                ELSE DecPbEntries(fd.ty, es, 1, Result(NoError, zero[fd.go]))
        rs == [i \in 1..Len(fs) |-> one(fs[i])]
        at(g) == CHOOSE i \in 1..Len(fs) : fs[i].go = g
    IN  [err |-> SeqError(rs),
         v |-> [g \in DOMAIN zero |-> rs[at(g)].v],
         set |-> [g \in DOMAIN zero |-> Len(entries(fs[at(g)])) > 0]]

-----------------------------------------------------------------------------
(* The limits the comments document; nothing in the schema enforces them *)

MaxEndpoints == 1000

MaxPorts == 100

MaxAddresses == 100

MaxForZones == 8

MaxNameLen == 63

\* Longest list enumerated element by element.
MaxLen == 2

LongName == "a123456789b123456789c123456789d123456789e123456789f123456789g123"

\* len() of the strings used as port names.
StrLen(s) ==
    CASE s = "" -> 0
      [] s = "http" -> 4
      [] s = LongName -> 64
      [] OTHER -> 1

\* The address type an address string is written in.
AddressFamily(a) ==
    CASE a = "10.0.0.5" -> AddressTypeIPv4
      [] a = "fe80::1" -> AddressTypeIPv6
      [] OTHER -> AddressTypeFQDN

HasDuplicates(q) == \E i, h \in 1..Len(q) : i # h /\ q[i] = q[h]

HintsViolates(h) == h.ForZones.some /\ Len(h.ForZones.v) > MaxForZones

ConditionsViolates(c) == c.Ready = Some(TRUE) /\ c.Terminating = Some(TRUE)

EndpointPortViolates(p) == p.Name.some /\ StrLen(p.Name.v) > MaxNameLen

EndpointViolates(e) ==
    \/ ~e.Addresses.some
    \/ Len(e.Addresses.v) = 0
    \/ Len(e.Addresses.v) > MaxAddresses
    \/ HasDuplicates(e.Addresses.v)
    \/ ConditionsViolates(e.Conditions)
    \/ e.Hints.some /\ HintsViolates(e.Hints.v)

EndpointSliceViolates(x) ==
    \/ /\ x.Endpoints.some
       /\ \/ Len(x.Endpoints.v) > MaxEndpoints
          \/ \E i \in 1..Len(x.Endpoints.v) :
                \/ EndpointViolates(x.Endpoints.v[i])
                \/ \E h \in 1..Len(x.Endpoints.v[i].Addresses.v) :
                      AddressFamily(x.Endpoints.v[i].Addresses.v[h]) # x.AddressType
    \/ /\ x.Ports.some
       /\ \/ Len(x.Ports.v) > MaxPorts
          \/ HasDuplicates([i \in 1..Len(x.Ports.v) |-> x.Ports.v[i].Name])
          \/ \E i \in 1..Len(x.Ports.v) : EndpointPortViolates(x.Ports.v[i])

\* The value breaks a documented constraint.
Violates(k, v) ==
    CASE k = "EndpointSlice" -> EndpointSliceViolates(v)
      [] k = "Endpoint" -> EndpointViolates(v)
      [] k = "EndpointConditions" -> ConditionsViolates(v)
      [] k = "EndpointPort" -> EndpointPortViolates(v)
      [] k = "EndpointHints" -> HintsViolates(v)
      [] k = "EndpointSliceList" ->
           v.Items.some /\ \E i \in 1..Len(v.Items.v) : EndpointSliceViolates(v.Items.v[i])
      [] OTHER -> FALSE

-----------------------------------------------------------------------------
(* The four conversions of a value of one of the schema's types *)

\* The encoder checking the documented limits.
Marshal_Validating(k, v) ==
    IF Violates(k, v)
    THEN Result("invalid value", JNull)
    ELSE Result(NoError, EncJson(TStruct(k), v))

\* json.Marshal: the schema holds no type the encoder refuses.
Marshal(k, v) == Result(NoError, EncJson(TStruct(k), v))

\* The decoder filling in the documented default protocol.
Unmarshal_Defaulting(k, d) ==
    LET r == DecJson(TStruct(k), d, Zero(TStruct(k)))
    IN  IF k = "EndpointPort" /\ ~r.v.Protocol.some
        THEN Result(r.err, [r.v EXCEPT !.Protocol = Some("TCP")])
        ELSE r

\* json.Unmarshal into a new value.
Unmarshal(k, d) == DecJson(TStruct(k), d, Zero(TStruct(k)))

PbMarshal(k, v) == Result(NoError, EncPbMsg(k, v))

PbUnmarshal(k, m) ==
    LET r == DecPbMsg(k, m) IN Result(r.err, r.v)

-----------------------------------------------------------------------------
(* The values and documents the conversions are applied to *)

Lists(S) == UNION {[1..n -> S] : n \in 0..MaxLen}

Repeat(x, n) == [i \in 1..n |-> x]

OptBool == {Nil, Some(FALSE), Some(TRUE)}

OptString(S) == {Nil} \cup {Some(x) : x \in S}

ConditionsValues == [Ready : OptBool, Serving : OptBool, Terminating : OptBool]

PortValues ==
    [Name : OptString({"", "http", LongName}),
     Protocol : OptString({"TCP", "SCTP", "QUIC"}),
     Port : {Nil, Some(0), Some(80)}]

ForZoneValues == [Name : {"", "zone-a"}]

HintsValues ==
    [ForZones : {Nil} \cup {Some(q) : q \in Lists(ForZoneValues)}
                  \cup {Some(Repeat([Name |-> "zone-a"], MaxForZones + 1))}]

NoConditions == [Ready |-> Nil, Serving |-> Nil, Terminating |-> Nil]

TopologyValues ==
    {Nil, Some(<< >>), Some([x \in {MapKeys[1]} |-> "node-1"]),
     Some([x \in {MapKeys[1], MapKeys[2]} |-> "zone-a"])}

\* Every list of addresses with a few settings of the rest, and every
\* setting of the rest with a few lists of addresses.
EndpointValues ==
    [Addresses : {Nil} \cup {Some(q) : q \in Lists({"10.0.0.5", "fe80::1"})}
                   \cup {Some(Repeat("10.0.0.5", MaxAddresses + 1))},
     Conditions : {NoConditions,
                   [Ready |-> Some(TRUE), Serving |-> Some(FALSE),
                    Terminating |-> Some(TRUE)]},
     DeprecatedTopology : {Nil, Some(<< >>)},
     NodeName : {Nil},
     Zone : {Some("zone-a")},
     Hints : {Nil}]
    \cup
    [Addresses : {Nil, Some(<< "10.0.0.5" >>)},
     Conditions : {NoConditions,
                   [NoConditions EXCEPT !.Terminating = Some(TRUE)],
                   [Ready |-> Some(TRUE), Serving |-> Some(FALSE),
                    Terminating |-> Some(TRUE)]},
     DeprecatedTopology : TopologyValues,
     NodeName : OptString({"", "node-1"}),
     Zone : OptString({"", "zone-a"}),
     Hints : {Nil, Some([ForZones |-> Nil]), Some([ForZones |-> Some(<< >>)]),
              Some([ForZones |-> Some(<< [Name |-> "zone-b"] >>)])}]

EndpointA ==
    [Addresses |-> Some(<< "10.0.0.5" >>),
     Conditions |-> [NoConditions EXCEPT !.Terminating = Some(TRUE)],
     DeprecatedTopology |-> Nil, NodeName |-> Nil, Zone |-> Some("zone-a"),
     Hints |-> Some([ForZones |-> Some(<< [Name |-> "zone-b"] >>)])]

EndpointB ==
    [Addresses |-> Some(<< "fe80::1" >>),
     Conditions |-> [NoConditions EXCEPT !.Ready = Some(FALSE)],
     DeprecatedTopology |-> Some(<< >>), NodeName |-> Some("node-1"),
     Zone |-> Nil, Hints |-> Nil]

PortA == [Name |-> Some("http"), Protocol |-> Some("TCP"), Port |-> Some(80)]

PortB == [Name |-> Some(""), Protocol |-> Nil, Port |-> Nil]

\* Short lists under every address type, and the two lists beyond the
\* documented maxima.
EndpointSliceValues ==
    [ObjectMeta : {<< >>},
     AddressType : {AddressTypeIPv4, AddressTypeFQDN, "IPvFuture", ""},
     Endpoints : {Nil} \cup {Some(q) : q \in Lists({EndpointA, EndpointB})},
     Ports : {Nil, Some(<< >>), Some(<< PortA, PortA >>), Some(<< PortB >>)}]
    \cup
    [ObjectMeta : {<< >>},
     AddressType : {AddressTypeIPv4},
     Endpoints : {Some(<< EndpointA >>)},
     Ports : {Some(q) : q \in Lists({PortA, PortB})}]
    \cup
    {[ObjectMeta |-> << >>, AddressType |-> AddressTypeIPv4,
      Endpoints |-> Some(Repeat(EndpointA, MaxEndpoints + 1)), Ports |-> Nil],
     [ObjectMeta |-> << >>, AddressType |-> AddressTypeIPv4,
      Endpoints |-> Some(<< EndpointA >>),
      Ports |-> Some([i \in 1..(MaxPorts + 1) |-> IF i = 1 THEN PortB ELSE PortA])]}

SliceA ==
    [ObjectMeta |-> << >>, AddressType |-> AddressTypeIPv4,
     Endpoints |-> Some(<< EndpointA >>), Ports |-> Some(<< PortA >>)]

SliceB ==
    [ObjectMeta |-> << >>, AddressType |-> AddressTypeIPv6,
     Endpoints |-> Nil, Ports |-> Some(<< >>)]

EndpointSliceListValues ==
    [ListMeta : {<< >>},
     Items : {Nil} \cup {Some(q) : q \in Lists({SliceA, SliceB})}]

Values(k) ==
    CASE k = "EndpointSlice" -> EndpointSliceValues
      [] k = "Endpoint" -> EndpointValues
      [] k = "EndpointConditions" -> ConditionsValues
      [] k = "EndpointPort" -> PortValues
      [] k = "EndpointHints" -> HintsValues
      [] k = "ForZone" -> ForZoneValues
      [] k = "EndpointSliceList" -> EndpointSliceListValues

\* Marks a member left out of a document.
Absent == [t |-> "absent"]

\* The object holding those of the candidate members ms that are not Absent.
ObjOf(ms) == JObj(SelectSeq(ms, LAMBDA m : m[2] # Absent))

ForZoneDocs ==
    {ObjOf(<< <<key, n>> >>) : key \in {"name", "Name"},
                               n \in {Absent, JStr("zone-b"), JStr(""), JNum(7), JNull}}

HintsDocs ==
    {ObjOf(<< <<key, z>> >>) :
        key \in {"forZones", "ForZones"},
        z \in {Absent, JNull, JStr("zone-b"), JArr(<< JStr("zone-b") >>),
               JArr(<< >>),
               JArr(Repeat(JObj(<< <<"name", JStr("zone-b")>> >>), MaxForZones + 1))}
              \cup {JArr(<< d >>) : d \in ForZoneDocs}}

ConditionsDocs ==
    {ObjOf(<< <<key, r>>, <<"serving", g>>, <<"terminating", t>> >>) :
        key \in {"ready", "Ready"},
        r \in {Absent, JBool(TRUE), JBool(FALSE), JNull, JStr("true")},
        g \in {Absent, JBool(FALSE), JNum(0)},
        t \in {Absent, JBool(TRUE), JArr(<< >>)}}

PortDocs ==
    {ObjOf(<< <<"name", n>>, <<"protocol", p>>, <<"port", q>> >>) :
        n \in {Absent, JStr("http"), JStr(LongName), JNum(1), JNull},
        p \in {Absent, JStr("TCP"), JStr("QUIC"), JBool(TRUE)},
        q \in {Absent, JNum(80), JStr("80"), JBigNum}}

\* hints as the upstream API server writes them.
UpstreamHints ==
    JObj(<< <<"forZones", JArr(<< JObj(<< <<"name", JStr("zone-b")>> >>) >>)>> >>)

EndpointDocs ==
    {ObjOf(<< <<"addresses", JArr(<< JStr("10.0.0.5") >>)>>, <<zk, z>>, <<hk, h>>,
              <<"extra", x>> >>) :
        zk \in {"zone", "Zone", "ZONE"},
        z \in {Absent, JStr("zone-a"), JNull, JNum(1)},
        hk \in {"hints", "Hints"},
        h \in {Absent, UpstreamHints, JStr("zone-b"),
               JObj(<< <<"ForZones", JArr(<< JObj(<< <<"Name", JStr("zone-b")>> >>) >>)>> >>),
               JObj(<< <<"forZones", JObj(<< >>)>> >>)},
        x \in {Absent, JNum(1)}}
    \cup
    {ObjOf(<< <<"addresses", a>>, <<"conditions", c>>, <<"deprecatedTopology", t>>,
              <<"nodeName", n>> >>) :
        a \in {Absent, JArr(<< JStr("10.0.0.5") >>), JArr(<< JNum(10) >>), JStr("10.0.0.5")},
        c \in {Absent, JObj(<< <<"ready", JBool(TRUE)>>, <<"terminating", JBool(TRUE)>> >>),
               JBool(TRUE)},
        t \in {Absent, JObj(<< <<MapKeys[1], JStr("node-1")>> >>),
               JObj(<< <<MapKeys[1], JStr("node-1")>>, <<MapKeys[2], JNum(1)>> >>)},
        n \in {Absent, JStr("node-1"), JArr(<< >>)}}
    \cup {JObj(<< <<"zone", JStr("zone-a")>>, <<"Zone", v>> >>) : v \in {JNull, JStr("")}}
    \cup {JObj(<< <<"Zone", JStr("zone-a")>>, <<"zone", JStr("zone-b")>> >>)}

EndpointSliceDocs ==
    {ObjOf(<< <<"kind", JStr("EndpointSlice")>>, <<"metadata", m>>, <<"addressType", a>>,
              <<"endpoints", e>>, <<"ports", q>> >>) :
        m \in {Absent, JObj(<< <<"name", JStr("svc-abc")>> >>), JStr("svc-abc")},
        a \in {Absent, JStr(AddressTypeIPv4), JStr("IPvFuture"), JNum(4), JNull},
        e \in {Absent, JNull, JObj(<< >>),
               JArr(<< JObj(<< <<"addresses", JArr(<< JStr("example.org") >>)>>,
                              <<"zone", JStr("zone-a")>>,
                              <<"hints", UpstreamHints>> >>) >>)},
        q \in {Absent, JStr("http"), JArr(<< JStr("http") >>),
               JArr(<< JObj(<< <<"name", JStr("http")>>, <<"protocol", JStr("QUIC")>> >>),
                       JObj(<< <<"name", JStr("http")>> >>) >>)}}

EndpointSliceListDocs ==
    {ObjOf(<< <<"metadata", m>>, <<key, i>> >>) :
        m \in {Absent, JObj(<< >>), JNum(1)},
        key \in {"items", "Items"},
        i \in {Absent, JNull, JStr("x"),
               JArr(<< JObj(<< <<"addressType", JStr("IPvFuture")>> >>) >>),
               JArr(<< JObj(<< <<"addressType", JBool(TRUE)>> >>) >>)}}

\* The documents handed to the decoder for struct k; some are not objects.
Docs(k) ==
    {JNull, JArr(<< >>), JStr("x")} \cup
    CASE k = "EndpointSlice" -> EndpointSliceDocs
      [] k = "Endpoint" -> EndpointDocs
      [] k = "EndpointConditions" -> ConditionsDocs
      [] k = "EndpointPort" -> PortDocs
      [] k = "EndpointHints" -> HintsDocs
      [] k = "ForZone" -> ForZoneDocs
      [] k = "EndpointSliceList" -> EndpointSliceListDocs

-----------------------------------------------------------------------------
(* The life of a value: built or received, encoded, decoded, used again *)

NoDoc == [t |-> "none"]

Init ==
    /\ pc = "idle"
    /\ kind = "EndpointSlice"
    /\ val = Zero(TStruct("EndpointSlice"))
    /\ out = Zero(TStruct("EndpointSlice"))
    /\ indoc = NoDoc
    /\ wire = NoDoc
    /\ fmt = "none"
    /\ err = NoError

\* The caller builds a value of one of the types.
Construct(k, v) ==
    /\ pc = "idle"
    /\ kind' = k
    /\ val' = v
    /\ out' = Zero(TStruct(k))
    /\ pc' = "built"
    /\ UNCHANGED <<indoc, wire, fmt, err>>

\* A structured-text document arrives from outside.
Receive(k, d) ==
    /\ pc = "idle"
    /\ kind' = k
    /\ indoc' = d
    /\ wire' = d
    /\ fmt' = "json"
    /\ val' = Zero(TStruct(k))
    /\ out' = Zero(TStruct(k))
    /\ pc' = "received"
    /\ UNCHANGED err

EncodeJSON ==
    /\ pc = "built"
    /\ LET r == Marshal(kind, val)
       IN  /\ wire' = r.v
           /\ err' = r.err
    /\ fmt' = "json"
    /\ pc' = "encoded"
    /\ UNCHANGED <<kind, val, indoc, out>>

EncodePB ==
    /\ pc = "built"
    /\ LET r == PbMarshal(kind, val)
       IN  /\ wire' = r.v
           /\ err' = r.err
    /\ fmt' = "pb"
    /\ pc' = "encoded"
    /\ UNCHANGED <<kind, val, indoc, out>>

DecodeJSON ==
    /\ pc \in {"encoded", "received"}
    /\ fmt = "json"
    /\ err = NoError
    /\ LET r == Unmarshal(kind, wire)
       IN  /\ out' = r.v
           /\ err' = r.err
    /\ pc' = IF pc = "received" THEN "parsed" ELSE "decoded"
    /\ UNCHANGED <<kind, val, indoc, wire, fmt>>

DecodePB ==
    /\ pc = "encoded"
    /\ fmt = "pb"
    /\ err = NoError
    /\ LET r == PbUnmarshal(kind, wire)
       IN  /\ out' = r.v
           /\ err' = r.err
    /\ pc' = "decoded"
    /\ UNCHANGED <<kind, val, indoc, wire, fmt>>

\* The consumer keeps the decoded value as its own, to encode it again.
Adopt ==
    /\ pc \in {"decoded", "parsed"}
    /\ err = NoError
    /\ val' = out
    /\ pc' = "built"
    /\ UNCHANGED <<kind, indoc, wire, fmt, out, err>>

\* The value is dropped.
Discard ==
    /\ pc \in {"decoded", "parsed"}
    /\ pc' = "idle"
    /\ kind' = "EndpointSlice"
    /\ val' = Zero(TStruct("EndpointSlice"))
    /\ out' = Zero(TStruct("EndpointSlice"))
    /\ indoc' = NoDoc
    /\ wire' = NoDoc
    /\ fmt' = "none"
    /\ err' = NoError

Next ==
    \/ \E k \in Kinds : \E v \in Values(k) : Construct(k, v)
    \/ \E k \in Kinds : \E d \in Docs(k) : Receive(k, d)
    \/ EncodeJSON
    \/ EncodePB
    \/ DecodeJSON
    \/ DecodePB
    \/ Adopt
    \/ Discard

Spec == Init /\ [][Next]_vars

-----------------------------------------------------------------------------
(* Vocabulary of the properties *)

StructT == TStruct(kind)

FieldsOfKind == Fields(kind)

IsObject(j) == j.t = "obj"

Keys(j) == {j.o[i][1] : i \in 1..Len(j.o)}

Member(j, key) == j.o[LastMember(j.o, key)][2]

\* The document has exactly one member whose key matches key ignoring case,
\* and it is spelled key.
SoleKey(j, key) ==
    /\ IsObject(j)
    /\ \E i \in 1..Len(j.o) :
          /\ j.o[i][1] = key
          /\ \A h \in 1..Len(j.o) : FoldName(j.o[h][1]) = FoldName(key) => h = i

\* The entries of a binary message carrying field number num.
EntriesOf(m, num) == SelectSeq(m, LAMBDA e : e.num = num)

CanBeNil(ty) == ty.k \in {"ptr", "slice", "map"}

RECURSIVE ReadBack(_, _, _)
\* v with every present-but-empty map made absent, and in the binary format
\* every present-but-empty sequence too.
ReadBack(f, ty, v) ==
    CASE ty.k = "ptr" -> IF v.some THEN Some(ReadBack(f, ty.e, v.v)) ELSE Nil
      [] ty.k = "slice" ->
           IF ~v.some \/ (f = "pb" /\ Len(v.v) = 0) THEN Nil
           ELSE Some([i \in 1..Len(v.v) |-> ReadBack(f, ty.e, v.v[i])])
      [] ty.k = "map" -> IF v.some /\ DOMAIN v.v # {} THEN v ELSE Nil
      [] ty.k = "struct" ->
           LET fs == Fields(ty.n)
           IN  [g \in DOMAIN v |->
                  ReadBack(f, fs[CHOOSE i \in 1..Len(fs) : fs[i].go = g].ty, v[g])]
      [] OTHER -> v

RECURSIVE HasEmptyContainer(_, _, _)
\* v holds a present-but-empty map, or in the binary format a
\* present-but-empty sequence.
HasEmptyContainer(f, ty, v) ==
    CASE ty.k = "ptr" -> v.some /\ HasEmptyContainer(f, ty.e, v.v)
      [] ty.k = "slice" ->
           /\ v.some
           /\ \/ f = "pb" /\ Len(v.v) = 0
              \/ \E i \in 1..Len(v.v) : HasEmptyContainer(f, ty.e, v.v[i])
      [] ty.k = "map" -> v.some /\ DOMAIN v.v = {}
      [] ty.k = "struct" ->
           LET fs == Fields(ty.n)
           IN  \E i \in 1..Len(fs) : HasEmptyContainer(f, fs[i].ty, v[fs[i].go])
      [] OTHER -> FALSE

RECURSIVE WellFormed(_, _)
\* The document has, wherever the schema has a field for it, a value of the
\* JSON type of that field (or null).
WellFormed(ty, j) ==
    \/ j.t = "null"
    \/ CASE ty.k = "string" -> j.t = "str"
         [] ty.k = "bool" -> j.t = "bool"
         [] ty.k = "int32" -> j.t = "num"
         [] ty.k = "ptr" -> WellFormed(ty.e, j)
         [] ty.k = "slice" ->
              j.t = "arr" /\ \A i \in 1..Len(j.a) : WellFormed(ty.e, j.a[i])
         [] ty.k = "map" ->
              j.t = "obj" /\ \A i \in 1..Len(j.o) : j.o[i][2].t \in {"str", "null"}
         [] ty.k = "struct" ->
              /\ j.t = "obj"
              /\ \A i \in 1..Len(j.o) :
                    LET f == FindField(ty.n, j.o[i][1])
                    IN  f # 0 => WellFormed(Fields(ty.n)[f].ty, j.o[i][2])

\* The three states of an optional boolean, string or sequence.
Presence(ty, x) ==
    IF ~x.some THEN "absent"
    ELSE CASE ty.k = "slice" -> IF Len(x.v) = 0 THEN "empty" ELSE "value"
           [] ty.e.k = "bool" -> IF x.v THEN "true" ELSE "false"
           [] OTHER -> IF x.v = "" THEN "empty" ELSE "value"

IsTriState(ty) ==
    \/ ty.k = "slice"
    \/ ty.k = "ptr" /\ ty.e.k \in {"bool", "string"}

-----------------------------------------------------------------------------
(* C1 *)

-----------------------------------------------------------------------------
(* C2 *)

\* The fields C2 names as optional.
OptionalFields(k) ==
    CASE k = "EndpointSlice" -> {"ObjectMeta", "Ports"}
      [] k = "Endpoint" -> {"DeprecatedTopology", "NodeName", "Zone", "Hints"}
      [] k = "EndpointConditions" -> {"Ready", "Serving", "Terminating"}
      [] k = "EndpointPort" -> {"Name", "Protocol", "Port"}
      [] k = "EndpointSliceList" -> {"ListMeta"}
      [] OTHER -> {}

\* C2: the structured-text encoding has no member, not even a null one, for
\* an optional field that is absent in the value.
C2_AbsentOptionalOmitted ==
    (pc = "encoded" /\ fmt = "json") =>
        \A i \in 1..Len(FieldsOfKind) :
            LET f == FieldsOfKind[i]
            IN  (f.go \in OptionalFields(kind) /\ CanBeNil(f.ty) /\ ~val[f.go].some)
                    => \A key \in Keys(wire) : FindField(kind, key) # i

-----------------------------------------------------------------------------
(* C3 *)

DocumentedKeys(k) ==
    CASE k = "EndpointSlice" -> {"metadata", "addressType", "endpoints", "ports"}
      [] k = "Endpoint" ->
           {"addresses", "conditions", "deprecatedTopology", "nodeName", "zone", "hints"}
      [] k = "EndpointConditions" -> {"ready", "serving", "terminating"}
      [] k = "EndpointPort" -> {"name", "protocol", "port"}
      [] k = "EndpointHints" -> {"forZones"}
      [] k = "ForZone" -> {"name"}
      [] k = "EndpointSliceList" -> {"metadata", "items"}

\* C3: every member of the structured-text encoding is written under the
\* documented key of its field, in that spelling and capitalisation.
C3_DocumentedKeysOnly ==
    (pc = "encoded" /\ fmt = "json") => Keys(wire) \subseteq DocumentedKeys(kind)

-----------------------------------------------------------------------------
(* C4 *)

-----------------------------------------------------------------------------
(* C5 *)

\* C5: an AddressType or Protocol outside the known set decodes without
\* error, is stored as the literal string of the document, and is written
\* back as that same string when the decoded value is encoded again.
C5_OpenEnumerations ==
    /\ (pc = "parsed" /\ WellFormed(StructT, indoc)) => err = NoError
    /\ (kind = "EndpointSlice" /\ SoleKey(indoc, "addressType")
          /\ Member(indoc, "addressType").t = "str") =>
           LET lit == Member(indoc, "addressType").s
           IN  /\ pc = "parsed" => out.AddressType = lit
               /\ (pc = "encoded" /\ fmt = "json") =>
                      Member(wire, "addressType") = JStr(lit)
               /\ (pc = "encoded" /\ fmt = "pb") =>
                      EntriesOf(wire, 4) = << PbLen(4, lit) >>
    /\ (kind = "EndpointPort" /\ SoleKey(indoc, "protocol")
          /\ Member(indoc, "protocol").t = "str") =>
           LET lit == Member(indoc, "protocol").s
           IN  /\ pc = "parsed" => out.Protocol = Some(lit)
               /\ (pc = "encoded" /\ fmt = "json") =>
                      Member(wire, "protocol") = JStr(lit)
               /\ (pc = "encoded" /\ fmt = "pb") =>
                      EntriesOf(wire, 2) = << PbLen(2, lit) >>

C5_Witness ==
    /\ pc = "encoded"
    /\ fmt = "json"
    /\ kind = "EndpointSlice"
    /\ SoleKey(indoc, "addressType")
    /\ Member(indoc, "addressType") = JStr("IPvFuture")
    /\ "IPvFuture" \notin KnownAddressTypes
    /\ val.AddressType = "IPvFuture"
    /\ Member(wire, "addressType") = JStr("IPvFuture")

-----------------------------------------------------------------------------
(* C6 *)

-----------------------------------------------------------------------------
(* C7 *)

\* C7: an EndpointPort field that is absent is absent from both encodings
\* and still absent after decoding; no default (TCP, the empty name) is put
\* in its place.
C7_NoDefaultMaterialised ==
    kind = "EndpointPort" =>
        \A i \in 1..Len(EndpointPortFields) :
            LET f == EndpointPortFields[i]
            IN  ~val[f.go].some =>
                   /\ (pc = "encoded" /\ fmt = "json") =>
                          \A key \in Keys(wire) : FindField(kind, key) # i
                   /\ (pc = "encoded" /\ fmt = "pb") => EntriesOf(wire, f.pb) = << >>
                   /\ pc = "decoded" => (err = NoError /\ ~out[f.go].some)

C7_Witness ==
    /\ pc = "decoded"
    /\ kind = "EndpointPort"
    /\ val = [Name |-> Some(""), Protocol |-> Nil, Port |-> Nil]
    /\ out.Name = Some("")
    /\ out.Protocol = Nil
    /\ out.Port = Nil

-----------------------------------------------------------------------------
(* C8 *)

\* C8: decoding fails only with the malformed-input error, and exactly when
\* the document is not well-formed for the schema; a well-formed document
\* decodes whatever constraint its content breaks, and so does everything
\* the encoders write.
C8_OnlyMalformedInputFails ==
    /\ err \in {NoError, MalformedInput}
    /\ pc = "parsed" => (err = NoError <=> WellFormed(StructT, indoc))
    /\ pc = "decoded" => err = NoError

C8_Witness ==
    /\ pc = "parsed"
    /\ kind = "EndpointPort"
    /\ SoleKey(indoc, "port")
    /\ Member(indoc, "port") = JStr("80")
    /\ SoleKey(indoc, "name")
    /\ Member(indoc, "name") = JStr(LongName)
    /\ err = MalformedInput

-----------------------------------------------------------------------------
(* C9 *)

\* The field numbers of the upstream discovery/v1 types.
UpstreamNumbers(k) ==
    CASE k = "EndpointSlice" ->
           [ObjectMeta |-> 1, Endpoints |-> 2, Ports |-> 3, AddressType |-> 4]
      [] k = "Endpoint" ->
           [Addresses |-> 1, Conditions |-> 2, DeprecatedTopology |-> 5,
            NodeName |-> 6, Zone |-> 7, Hints |-> 8]
      [] k = "EndpointConditions" -> [Ready |-> 1, Serving |-> 2, Terminating |-> 3]
      [] k = "EndpointPort" -> [Name |-> 1, Protocol |-> 2, Port |-> 3]
      [] k = "EndpointHints" -> [ForZones |-> 1]
      [] k = "ForZone" -> [Name |-> 1]
      [] k = "EndpointSliceList" -> [ListMeta |-> 1, Items |-> 2]

\* C9: the field numbers of each entity are pairwise distinct and are the
\* upstream ones, and a binary message carries each field under its upstream
\* number and nothing else, so that decoding gives every field its own
\* entries.
C9_UpstreamFieldNumbers ==
    /\ \A k \in Kinds :
          LET fs == Fields(k)
          IN  /\ \A i \in 1..Len(fs) : fs[i].pb = UpstreamNumbers(k)[fs[i].go]
              /\ \A i, h \in 1..Len(fs) : i # h => fs[i].pb # fs[h].pb
    /\ (pc \in {"encoded", "decoded"} /\ fmt = "pb") =>
          /\ \A i \in 1..Len(wire) :
                \E g \in DOMAIN val : UpstreamNumbers(kind)[g] = wire[i].num
          /\ \A i \in 1..Len(FieldsOfKind) :
                LET f == FieldsOfKind[i]
                    es == EntriesOf(wire, UpstreamNumbers(kind)[f.go])
                IN  /\ es = EncPb(UpstreamNumbers(kind)[f.go], f.ty, val[f.go])
                    /\ pc = "decoded" =>
                          out[f.go] = ReadBack("pb", f.ty, val[f.go])

C9_Witness ==
    /\ pc = "decoded"
    /\ fmt = "pb"
    /\ kind = "Endpoint"
    /\ val.NodeName = Some("node-1")
    /\ val.Zone = Some("zone-a")
    /\ EntriesOf(wire, 6) = << PbLen(6, "node-1") >>
    /\ EntriesOf(wire, 7) = << PbLen(7, "zone-a") >>
    /\ out.NodeName = Some("node-1")
    /\ out.Zone = Some("zone-a")

-----------------------------------------------------------------------------
(* C10 *)

\* C10: a document with the upstream keys zone, hints, forZones and name
\* fills Endpoint.Zone, Endpoint.Hints, EndpointHints.ForZones and
\* ForZone.Name with the values it gives, also for the endpoints of a slice.
C10_UpstreamKeysDecoded ==
    pc = "parsed" =>
        /\ (kind = "Endpoint" /\ SoleKey(indoc, "zone")
              /\ Member(indoc, "zone").t = "str") =>
               out.Zone = Some(Member(indoc, "zone").s)
        /\ (kind = "Endpoint" /\ SoleKey(indoc, "hints")
              /\ Member(indoc, "hints") = UpstreamHints) =>
               out.Hints = Some([ForZones |-> Some(<< [Name |-> "zone-b"] >>)])
        /\ (kind = "EndpointHints" /\ SoleKey(indoc, "forZones")
              /\ Member(indoc, "forZones").t = "arr") =>
               /\ out.ForZones.some
               /\ Len(out.ForZones.v) = Len(Member(indoc, "forZones").a)
               /\ \A i \in 1..Len(out.ForZones.v) :
                     LET d == Member(indoc, "forZones").a[i]
                     IN  (SoleKey(d, "name") /\ Member(d, "name").t = "str") =>
                             out.ForZones.v[i].Name = Member(d, "name").s
        /\ (kind = "ForZone" /\ SoleKey(indoc, "name")
              /\ Member(indoc, "name").t = "str") =>
               out.Name = Member(indoc, "name").s
        /\ (kind = "EndpointSlice" /\ SoleKey(indoc, "endpoints")
              /\ Member(indoc, "endpoints").t = "arr") =>
               \A i \in 1..Len(out.Endpoints.v) :
                   /\ out.Endpoints.v[i].Zone = Some("zone-a")
                   /\ out.Endpoints.v[i].Hints =
                         Some([ForZones |-> Some(<< [Name |-> "zone-b"] >>)])

C10_Witness ==
    /\ pc = "parsed"
    /\ kind = "Endpoint"
    /\ SoleKey(indoc, "zone")
    /\ Member(indoc, "zone") = JStr("zone-a")
    /\ SoleKey(indoc, "hints")
    /\ Member(indoc, "hints") = UpstreamHints
    /\ out.Zone = Some("zone-a")
    /\ out.Hints = Some([ForZones |-> Some(<< [Name |-> "zone-b"] >>)])

=============================================================================
